---------------------------- MODULE Spec2Model ----------------------------
(***************************************************************************)
(* A model of sims-far (src/src/lib.rs): the FAR archive reader.           *)
(*                                                                         *)
(*   parse_far            reads header and manifest through one file      *)
(*                        handle, one read_exact after the other          *)
(*   parse_manifest_entry reads one entry record at the handle's cursor   *)
(*   get_bytes            opens the backing file again, seeks, reads      *)
(*                                                                         *)
(* The backing file is a sequence of bytes (0..255).  Open files live in   *)
(* a table of file descriptions, each with a cursor of its own, as the    *)
(* operating system keeps them; File::open takes a free slot, dropping    *)
(* the File frees it.                                                      *)
(***************************************************************************)
EXTENDS Integers, Sequences, FiniteSets, TLC

\* ------------------------------------------------------------------ bounds
\* The most entry records a generated manifest holds.
MaxEntries == 2
\* The number of callers that run get_bytes at the same time.
NumCallers == 2

\* ------------------------------------------------------- program constants
\* let mut buf: [u8; 8]
SignatureLen == 8
\* let mut buf: [u8; 4]
WordLen == 4

VARIABLES
    input,      \* the backing file: [exists, bytes]
    handles,    \* the table of open file descriptions: id -> [open, pos]
    ppc,        \* parse_far: the statement it is at
    pf,         \* parse_far: its File `f` (an id of handles; 0 before open)
    far,        \* parse_far: its local `far`
    pret,       \* parse_far: what it returned
    pat,        \* parse_far: the statement it returned from
    cpc,        \* get_bytes, per caller: the statement it is at
    cidx,       \* per caller: the index of the entry it was called on
    cme,        \* per caller: `self`, the ManifestEntry (a copy)
    cf,         \* per caller: its File `f`
    cret,       \* per caller: what get_bytes returned
    hist        \* what a sequential caller remembers: entry index -> result

vars == <<input, handles, ppc, pf, far, pret, pat, cpc, cidx, cme, cf, cret, hist>>

Callers == 1..NumCallers
\* One description for parse_far (dropped before any get_bytes) and one per caller.
HandleIds == 1..(NumCallers + 1)
NoHandle == 0

\* ------------------------------------------------------------- Result<T,E>
None == [tag |-> "None"]
Ok(v) == [tag |-> "Ok", val |-> v]
Err(k) == [tag |-> "Err", kind |-> k]
\* FarError::FileError(io::Error)
FileError == "FileError"
\* FarError::Utf8Error(Utf8Error)
Utf8Error == "Utf8Error"
\* FarError::FailedToParseFar; no statement of the crate constructs it
FailedToParseFar == "FailedToParseFar"

\* ------------------------------------------------------------------- bytes
RECURSIVE Pow256(_)
Pow256(k) == IF k = 0 THEN 1 ELSE 256 * Pow256(k - 1)

\* u32::from_le_bytes: the least significant byte first.
RECURSIVE from_le_bytes(_)
from_le_bytes(b) ==
    IF b = <<>> THEN 0 ELSE Head(b) + 256 * from_le_bytes(Tail(b))

\* The four bytes of a u32, least significant first (how a file is written).
to_le_bytes(v) == [k \in 1..WordLen |-> (v \div Pow256(k - 1)) % 256]

IsCont(b) == b >= 128 /\ b <= 191

\* The number of bytes of the UTF-8 sequence that starts b, 0 when the
\* sequence is not well formed (core::str::from_utf8's validation).
Utf8Width(b) ==
    LET b1 == b[1]
        second(lo, hi) == Len(b) >= 2 /\ b[2] >= lo /\ b[2] <= hi
        cont(i) == Len(b) >= i /\ IsCont(b[i])
    IN  IF b1 < 128 THEN 1
        ELSE IF b1 >= 194 /\ b1 <= 223 THEN (IF cont(2) THEN 2 ELSE 0)
        ELSE IF b1 = 224 THEN (IF second(160, 191) /\ cont(3) THEN 3 ELSE 0)
        ELSE IF b1 = 237 THEN (IF second(128, 159) /\ cont(3) THEN 3 ELSE 0)
        ELSE IF b1 >= 225 /\ b1 <= 239 THEN (IF cont(2) /\ cont(3) THEN 3 ELSE 0)
        ELSE IF b1 = 240 THEN (IF second(144, 191) /\ cont(3) /\ cont(4) THEN 4 ELSE 0)
        ELSE IF b1 >= 241 /\ b1 <= 243 THEN (IF cont(2) /\ cont(3) /\ cont(4) THEN 4 ELSE 0)
        ELSE IF b1 = 244 THEN (IF second(128, 143) /\ cont(3) /\ cont(4) THEN 4 ELSE 0)
        ELSE 0

RECURSIVE IsUtf8(_)
IsUtf8(b) ==
    IF b = <<>> THEN TRUE
    ELSE LET w == Utf8Width(b)
         IN  w > 0 /\ IsUtf8(SubSeq(b, w + 1, Len(b)))

\* A from_utf8 that never fails: the bytes go through whatever they are.
from_utf8_unchecked(b) == Ok(b)

\* std::str::from_utf8: the same bytes as a str, or a Utf8Error.
from_utf8(b) == IF IsUtf8(b) THEN Ok(b) ELSE Err(Utf8Error)

\* ------------------------------------------------------ file descriptions
Closed == [open |-> FALSE, pos |-> 0]
Opened == [open |-> TRUE, pos |-> 0]

\* Every open takes the same slot: the callers share one description.
SharedHandle(hs) == 1

\* File::open: a description of its own, the lowest free slot of the table
\* (NoHandle when the table is full).
FreshHandle(hs) ==
    IF \A i \in HandleIds : hs[i].open THEN NoHandle
    ELSE CHOOSE i \in HandleIds :
            /\ ~hs[i].open
            /\ \A j \in HandleIds : j < i => hs[j].open

\* A File that is never closed.
LeakHandle(hs, f) == hs

\* Dropping the File closes its description.
CloseHandle(hs, f) == IF f \in HandleIds THEN [hs EXCEPT ![f] = Closed] ELSE hs

\* Seek::seek(SeekFrom::Start(off)): any offset is accepted, also one beyond
\* the end of the file.
SeekStart(h, off) == [h EXCEPT !.pos = off]

Min(a, b) == IF a < b THEN a ELSE b
Max(a, b) == IF a < b THEN b ELSE a

\* A read that hands back what is there: on a short read the rest of the
\* zeroed buffer stays as it was and no error is raised.
ReadLenient(bytes, h, n) ==
    LET have == IF h.pos >= Len(bytes) THEN 0 ELSE Min(n, Len(bytes) - h.pos)
    IN  [ok |-> h.open,
         bytes |-> SubSeq(bytes, h.pos + 1, h.pos + have) \o [k \in 1..(n - have) |-> 0],
         h |-> [h EXCEPT !.pos = h.pos + have]]

\* Read::read_exact into a buffer of n bytes: the n bytes at the cursor, which
\* moves past them, or an error (UnexpectedEof) when fewer than n are left.
\* A buffer of no bytes is filled at any cursor.
ReadExact(bytes, h, n) ==
    IF h.open /\ (n = 0 \/ h.pos + n <= Len(bytes))
    THEN [ok |-> TRUE,
          bytes |-> SubSeq(bytes, h.pos + 1, h.pos + n),
          h |-> [h EXCEPT !.pos = h.pos + n]]
    ELSE [ok |-> FALSE,
          bytes |-> <<>>,
          h |-> [h EXCEPT !.pos = Max(h.pos, Len(bytes))]]

\* read_exact of four bytes, then u32::from_le_bytes.
ReadU32(bytes, h) ==
    LET r == ReadExact(bytes, h, WordLen)
    IN  [ok |-> r.ok, val |-> IF r.ok THEN from_le_bytes(r.bytes) ELSE 0, h |-> r.h]

\* ------------------------------------------------------------ the structs
EmptyFar ==
    [signature |-> <<>>, version |-> 0, manifest_offset |-> 0,
     manifest |-> [number_of_files |-> 0, manifest_entries |-> <<>>]]

EmptyEntry ==
    [file_length1 |-> 0, file_length2 |-> 0, file_offset |-> 0,
     file_name_length |-> 0, file_name |-> <<>>]

\* An entry record whose name is not included in what the cursor moves by.
parse_manifest_entry_fixed(bytes, h0) ==
    LET a == ReadU32(bytes, h0)
        b == ReadU32(bytes, a.h)
        c == ReadU32(bytes, b.h)
        d == ReadU32(bytes, c.h)
        n == ReadExact(bytes, d.h, d.val)
        u == from_utf8(n.bytes)
    IN  IF ~(a.ok /\ b.ok /\ c.ok /\ d.ok /\ n.ok) THEN [res |-> Err(FileError), h |-> n.h]
        ELSE IF u.tag = "Err" THEN [res |-> u, h |-> n.h]
        ELSE [res |-> Ok([file_length1 |-> a.val, file_length2 |-> b.val,
                          file_offset |-> c.val, file_name_length |-> d.val,
                          file_name |-> u.val]),
              h |-> d.h]

\* An entry record read as if a terminating byte followed its name.
parse_manifest_entry_terminated(bytes, h0) ==
    LET a == ReadU32(bytes, h0)
        b == ReadU32(bytes, a.h)
        c == ReadU32(bytes, b.h)
        d == ReadU32(bytes, c.h)
        n == ReadExact(bytes, d.h, d.val)
        z == ReadExact(bytes, n.h, 1)
        u == from_utf8(n.bytes)
    IN  IF ~(a.ok /\ b.ok /\ c.ok /\ d.ok /\ n.ok /\ z.ok)
        THEN [res |-> Err(FileError), h |-> z.h]
        ELSE IF u.tag = "Err" THEN [res |-> u, h |-> z.h]
        ELSE [res |-> Ok([file_length1 |-> a.val, file_length2 |-> b.val,
                          file_offset |-> c.val, file_name_length |-> d.val,
                          file_name |-> u.val]),
              h |-> z.h]

\* parse_manifest_entry: four u32 fields, then file_name_length bytes of name,
\* each read where the one before left the cursor; the first failure returns.
parse_manifest_entry(bytes, h0) ==
    LET a == ReadU32(bytes, h0)
        b == ReadU32(bytes, a.h)
        c == ReadU32(bytes, b.h)
        d == ReadU32(bytes, c.h)
        n == ReadExact(bytes, d.h, d.val)
        u == from_utf8(n.bytes)
    IN  IF ~a.ok THEN [res |-> Err(FileError), h |-> a.h]
        ELSE IF ~b.ok THEN [res |-> Err(FileError), h |-> b.h]
        ELSE IF ~c.ok THEN [res |-> Err(FileError), h |-> c.h]
        ELSE IF ~d.ok THEN [res |-> Err(FileError), h |-> d.h]
        ELSE IF ~n.ok THEN [res |-> Err(FileError), h |-> n.h]
        ELSE IF u.tag = "Err" THEN [res |-> u, h |-> n.h]
        ELSE [res |-> Ok([file_length1 |-> a.val, file_length2 |-> b.val,
                          file_offset |-> c.val, file_name_length |-> d.val,
                          file_name |-> u.val]),
              h |-> n.h]

\* ------------------------------------------------------------- the inputs
\* "FAR!byAZ"
SigLiteral == <<70, 65, 82, 33, 98, 121, 65, 90>>
\* "FAR!byAX": well-formed UTF-8, not the tag
SigOther == <<70, 65, 82, 33, 98, 121, 65, 88>>
\* 0xFF is in no UTF-8 sequence
SigBad == <<255, 65, 82, 33, 98, 121, 65, 90>>

HeaderChoices ==
    { [sig |-> SigLiteral, ver |-> 1],
      [sig |-> SigOther, ver |-> 2],
      [sig |-> SigBad, ver |-> 1] }

\* The bodies of the archived files, at offsets 16, 17 and 18.
Body == <<65, 66, 67>>

\* Entry records as written to a file: the four fields and the name bytes.
\* 200 is beyond the end of every generated file.
EntryChoices ==
    { \* two bytes of the body, a one-byte name
      [len1 |-> 2, len2 |-> 2, off |-> 16, name |-> <<97>>],
      \* an empty name; the second length differs from the first
      [len1 |-> 1, len2 |-> 3, off |-> 17, name |-> <<>>],
      \* no bytes at an offset beyond the end; a two-byte character
      [len1 |-> 0, len2 |-> 0, off |-> 200, name |-> <<195, 169>>],
      \* bytes at an offset beyond the end
      [len1 |-> 2, len2 |-> 2, off |-> 200, name |-> <<98>>],
      \* a range that starts inside the file and runs past its end
      [len1 |-> 200, len2 |-> 1, off |-> 16, name |-> <<>>],
      \* names that are not UTF-8: a stray 0xFF, a lead byte without its
      \* continuation byte
      [len1 |-> 1, len2 |-> 1, off |-> 16, name |-> <<255>>],
      [len1 |-> 2, len2 |-> 2, off |-> 17, name |-> <<195, 40>>] }

RecordBytes(e) ==
    to_le_bytes(e.len1) \o to_le_bytes(e.len2) \o to_le_bytes(e.off)
        \o to_le_bytes(Len(e.name)) \o e.name

RECURSIVE Concat(_)
Concat(ss) == IF ss = <<>> THEN <<>> ELSE Head(ss) \o Concat(Tail(ss))

Manifests == UNION { [1..k -> EntryChoices] : k \in 0..MaxEntries }

ManifestBytes(es) ==
    to_le_bytes(Len(es)) \o Concat([k \in 1..Len(es) |-> RecordBytes(es[k])])

\* Where the header's manifest_offset points: at the manifest, two bytes
\* before the end of the file, at its end, or beyond it.
OffsetChoices == {"manifest", "tail", "end", "beyond"}

\* How many bytes are missing at the end of the file.
CutChoices == {0, 1}

FileBytes(hd, es, ok, cut) ==
    LET at == SignatureLen + 2 * WordLen + Len(Body)
        size == at + Len(ManifestBytes(es)) - cut
        mo == CASE ok = "manifest" -> at
                [] ok = "tail" -> size - 2
                [] ok = "end" -> size
                [] OTHER -> size + 1
        full == hd.sig \o to_le_bytes(hd.ver) \o to_le_bytes(mo) \o Body
                    \o ManifestBytes(es)
    IN  SubSeq(full, 1, size)

\* Files that end inside the header.
ShortFiles ==
    { SubSeq(FileBytes([sig |-> SigLiteral, ver |-> 1], <<>>, "manifest", 0), 1, k) :
        k \in {0, 6, 10, 14} }

Files ==
    { FileBytes(hd, es, ok, cut) :
        hd \in HeaderChoices, es \in Manifests, ok \in OffsetChoices, cut \in CutChoices }
    \cup ShortFiles

Inputs ==
    { [exists |-> TRUE, bytes |-> f] : f \in Files }
    \cup { [exists |-> FALSE, bytes |-> <<>>] }

\* ------------------------------------------------------------------- Init
Init ==
    /\ input \in Inputs
    /\ handles = [i \in HandleIds |-> Closed]
    /\ ppc = "open"
    /\ pf = NoHandle
    /\ far = EmptyFar
    /\ pret = None
    /\ pat = ""
    /\ cpc = [c \in Callers |-> "idle"]
    /\ cidx = [c \in Callers |-> 0]
    /\ cme = [c \in Callers |-> EmptyEntry]
    /\ cf = [c \in Callers |-> NoHandle]
    /\ cret = [c \in Callers |-> None]
    /\ hist = [i \in 1..MaxEntries |-> None]

CallerVars == <<cpc, cidx, cme, cf, cret, hist>>

\* -------------------------------------------------------------- parse_far
\* `?` on an Err: parse_far returns it; its locals, the File among them, are
\* dropped.
ParseFail(kind) ==
    /\ pret' = Err(kind)
    /\ pat' = ppc
    /\ ppc' = "returned"
    /\ far' = EmptyFar
    /\ handles' = CloseHandle(handles, pf)
    /\ pf' = NoHandle

\* let mut f = File::open(path)?;
ParseOpen ==
    /\ ppc = "open"
    /\ IF input.exists /\ FreshHandle(handles) # NoHandle
       THEN /\ pf' = FreshHandle(handles)
            /\ handles' = [handles EXCEPT ![pf'] = Opened]
            /\ ppc' = "signature"
            /\ UNCHANGED <<far, pret, pat>>
       ELSE ParseFail(FileError)
    /\ UNCHANGED <<input, CallerVars>>

\* A parser that compares the signature with the tag and rejects any other.
ReadSignatureStrict ==
    /\ ppc = "signature"
    /\ LET r == ReadExact(input.bytes, handles[pf], SignatureLen)
           u == from_utf8(r.bytes)
       IN  IF ~r.ok THEN ParseFail(FileError)
           ELSE IF u.tag = "Err" THEN ParseFail(u.kind)
           ELSE IF u.val # SigLiteral THEN ParseFail(FailedToParseFar)
           ELSE /\ far' = [far EXCEPT !.signature = u.val]
                /\ handles' = [handles EXCEPT ![pf] = r.h]
                /\ ppc' = "version"
                /\ UNCHANGED <<pf, pret, pat>>
    /\ UNCHANGED <<input, CallerVars>>

\* f.read_exact(&mut buf)?; far.signature = from_utf8(&buf)?;
ReadSignature ==
    /\ ppc = "signature"
    /\ LET r == ReadExact(input.bytes, handles[pf], SignatureLen)
           u == from_utf8(r.bytes)
       IN  IF ~r.ok THEN ParseFail(FileError)
           ELSE IF u.tag = "Err" THEN ParseFail(u.kind)
           ELSE /\ far' = [far EXCEPT !.signature = u.val]
                /\ handles' = [handles EXCEPT ![pf] = r.h]
                /\ ppc' = "version"
                /\ UNCHANGED <<pf, pret, pat>>
    /\ UNCHANGED <<input, CallerVars>>

\* f.read_exact(&mut buf)?; far.version = u32::from_le_bytes(..);
ReadVersion ==
    /\ ppc = "version"
    /\ LET r == ReadU32(input.bytes, handles[pf])
       IN  IF ~r.ok THEN ParseFail(FileError)
           ELSE /\ far' = [far EXCEPT !.version = r.val]
                /\ handles' = [handles EXCEPT ![pf] = r.h]
                /\ ppc' = "manifest_offset"
                /\ UNCHANGED <<pf, pret, pat>>
    /\ UNCHANGED <<input, CallerVars>>

\* f.read_exact(&mut buf)?; far.manifest_offset = u32::from_le_bytes(..);
ReadManifestOffset ==
    /\ ppc = "manifest_offset"
    /\ LET r == ReadU32(input.bytes, handles[pf])
       IN  IF ~r.ok THEN ParseFail(FileError)
           ELSE /\ far' = [far EXCEPT !.manifest_offset = r.val]
                /\ handles' = [handles EXCEPT ![pf] = r.h]
                /\ ppc' = "seek"
                /\ UNCHANGED <<pf, pret, pat>>
    /\ UNCHANGED <<input, CallerVars>>

\* f.seek(Start(far.manifest_offset as u64))?;
SeekManifest ==
    /\ ppc = "seek"
    /\ handles' = [handles EXCEPT ![pf] = SeekStart(handles[pf], far.manifest_offset)]
    /\ ppc' = "number_of_files"
    /\ UNCHANGED <<input, pf, far, pret, pat, CallerVars>>

\* f.read_exact(&mut buf)?; far.manifest.number_of_files = ..;
ReadNumberOfFiles ==
    /\ ppc = "number_of_files"
    /\ LET r == ReadU32(input.bytes, handles[pf])
       IN  IF ~r.ok THEN ParseFail(FileError)
           ELSE /\ far' = [far EXCEPT !.manifest.number_of_files = r.val]
                /\ handles' = [handles EXCEPT ![pf] = r.h]
                /\ ppc' = "entries"
                /\ UNCHANGED <<pf, pret, pat>>
    /\ UNCHANGED <<input, CallerVars>>

\* A loop that stops one entry early.
LoopContinuesShort(fr) ==
    Len(fr.manifest.manifest_entries) + 1 < fr.manifest.number_of_files

\* for _ in 0..far.manifest.number_of_files
LoopContinues(fr) ==
    Len(fr.manifest.manifest_entries) < fr.manifest.number_of_files

\* let me = parse_manifest_entry(&mut f, path)?;
\* far.manifest.manifest_entries.push(me);
ParseManifestEntry ==
    /\ ppc = "entries"
    /\ LoopContinues(far)
    /\ LET r == parse_manifest_entry(input.bytes, handles[pf])
       IN  IF r.res.tag = "Err" THEN ParseFail(r.res.kind)
           ELSE /\ far' = [far EXCEPT !.manifest.manifest_entries = Append(@, r.res.val)]
                /\ handles' = [handles EXCEPT ![pf] = r.h]
                /\ UNCHANGED <<ppc, pf, pret, pat>>
    /\ UNCHANGED <<input, CallerVars>>

\* return Ok(far);
ParseReturn ==
    /\ ppc = "entries"
    /\ ~LoopContinues(far)
    /\ pret' = Ok(far)
    /\ pat' = "return"
    /\ ppc' = "returned"
    /\ handles' = CloseHandle(handles, pf)
    /\ pf' = NoHandle
    /\ UNCHANGED <<input, far, CallerVars>>

ParseNext ==
    \/ ParseOpen
    \/ ReadSignature
    \/ ReadVersion
    \/ ReadManifestOffset
    \/ SeekManifest
    \/ ReadNumberOfFiles
    \/ ParseManifestEntry
    \/ ParseReturn

ParseVars == <<input, ppc, pf, far, pret, pat>>

\* -------------------------------------------------------------- get_bytes
\* The entries a caller holds: those of the Far that parse_far returned.
Entries == IF pret.tag = "Ok" THEN pret.val.manifest.manifest_entries ELSE <<>>

\* get_bytes reads as many bytes as the second length says.
ReadLength2(me) == me.file_length2

\* let mut buf: Vec<u8> = vec![0x00; self.file_length1 as usize];
ReadLength(me) == me.file_length1

\* A call of get_bytes on entry i: let mut f = File::open(self.file_path)?;
GetBytesOpen(c, i) ==
    /\ cpc[c] = "idle"
    /\ i \in 1..Len(Entries)
    /\ cidx' = [cidx EXCEPT ![c] = i]
    /\ cme' = [cme EXCEPT ![c] = Entries[i]]
    /\ LET f == FreshHandle(handles)
       IN  IF input.exists /\ f # NoHandle
           THEN /\ cf' = [cf EXCEPT ![c] = f]
                /\ handles' = [handles EXCEPT ![f] = Opened]
                /\ cpc' = [cpc EXCEPT ![c] = "seek"]
                /\ UNCHANGED cret
           ELSE /\ cret' = [cret EXCEPT ![c] = Err(FileError)]
                /\ cpc' = [cpc EXCEPT ![c] = "done"]
                /\ UNCHANGED <<cf, handles>>
    /\ UNCHANGED <<ParseVars, hist>>

\* f.seek(Start(self.file_offset as u64))?;
GetBytesSeek(c) ==
    /\ cpc[c] = "seek"
    /\ handles' = [handles EXCEPT ![cf[c]] = SeekStart(handles[cf[c]], cme[c].file_offset)]
    /\ cpc' = [cpc EXCEPT ![c] = "read"]
    /\ UNCHANGED <<ParseVars, cidx, cme, cf, cret, hist>>

\* f.read_exact(&mut *buf)?; return Ok(buf);  The File is dropped either way.
GetBytesRead(c) ==
    /\ cpc[c] = "read"
    /\ LET r == ReadExact(input.bytes, handles[cf[c]], ReadLength(cme[c]))
       IN  cret' = [cret EXCEPT ![c] = IF r.ok THEN Ok(r.bytes) ELSE Err(FileError)]
    /\ handles' = CloseHandle(handles, cf[c])
    /\ cf' = [cf EXCEPT ![c] = NoHandle]
    /\ cpc' = [cpc EXCEPT ![c] = "done"]
    /\ UNCHANGED <<ParseVars, cidx, cme, hist>>

\* The caller takes the result; it may call again.
TakeResult(c) ==
    /\ cpc[c] = "done"
    /\ cpc' = [cpc EXCEPT ![c] = "idle"]
    /\ cidx' = [cidx EXCEPT ![c] = 0]
    /\ cme' = [cme EXCEPT ![c] = EmptyEntry]
    /\ cret' = [cret EXCEPT ![c] = None]
    /\ UNCHANGED <<ParseVars, handles, cf, hist>>

\* The caller takes the result and keeps it beside the entry's index.
TakeAndRemember(c) ==
    /\ cpc[c] = "done"
    /\ hist' = [hist EXCEPT ![cidx[c]] = cret[c]]
    /\ cpc' = [cpc EXCEPT ![c] = "idle"]
    /\ cidx' = [cidx EXCEPT ![c] = 0]
    /\ cme' = [cme EXCEPT ![c] = EmptyEntry]
    /\ cret' = [cret EXCEPT ![c] = None]
    /\ UNCHANGED <<ParseVars, handles, cf>>

\* Any number of callers, interleaved step by step.
Next ==
    \/ ParseNext
    \/ \E c \in Callers, i \in 1..MaxEntries : GetBytesOpen(c, i)
    \/ \E c \in Callers : GetBytesSeek(c)
    \/ \E c \in Callers : GetBytesRead(c)
    \/ \E c \in Callers : TakeResult(c)

Spec == Init /\ [][Next]_vars

\* One caller, one call after the other.
SeqNext ==
    \/ ParseNext
    \/ \E i \in 1..MaxEntries : GetBytesOpen(1, i)
    \/ GetBytesSeek(1)
    \/ GetBytesRead(1)
    \/ TakeAndRemember(1)

SeqSpec == Init /\ [][SeqNext]_vars

\* ============================================================== the claims
\* The file as it lies on disk, read by offset arithmetic alone (no cursor).
Bytes == input.bytes
Size == Len(input.bytes)

\* The little-endian u32 at the (0-based) file offset p.
U32At(p) ==
    Bytes[p + 1] + 256 * Bytes[p + 2] + 65536 * Bytes[p + 3] + 16777216 * Bytes[p + 4]

\* The entry record that starts at file offset p.
DiskRecord(p) ==
    [file_length1 |-> U32At(p), file_length2 |-> U32At(p + 4),
     file_offset |-> U32At(p + 8), file_name_length |-> U32At(p + 12),
     file_name |-> SubSeq(Bytes, p + 17, p + 16 + U32At(p + 12))]

\* Where the k-th record (from 1) of the manifest at mo starts, going by the
\* name lengths on disk.
RECURSIVE DiskRecordOffset(_, _)
DiskRecordOffset(mo, k) ==
    IF k = 1 THEN mo + 4
    ELSE LET p == DiskRecordOffset(mo, k - 1) IN p + 16 + U32At(p + 12)

\* The bytes that k parsed entries occupy: 16 and the name length for each.
RECURSIVE ParsedBytes(_, _)
ParsedBytes(es, k) ==
    IF k = 0 THEN 0 ELSE ParsedBytes(es, k - 1) + 16 + es[k].file_name_length

RECURSIVE SumNameLengths(_)
SumNameLengths(es) ==
    IF es = <<>> THEN 0 ELSE Head(es).file_name_length + SumNameLengths(Tail(es))

Cursor == handles[pf].pos
ParsedEntries == far.manifest.manifest_entries

\* C1: whenever parse returns Ok for a file whose manifest encodes N entries,
\* number_of_files is N, manifest_entries has exactly N elements, and element
\* i carries the field values of the i-th entry record on disk, in on-disk
\* order.
C1_EntriesMatchDisk ==
    pret.tag = "Ok" =>
        LET m == pret.val.manifest
            mo == U32At(12)
            N == U32At(mo)
        IN  /\ m.number_of_files = N
            /\ Len(m.manifest_entries) = N
            /\ \A k \in 1..N :
                   m.manifest_entries[k] = DiskRecord(DiskRecordOffset(mo, k))

C1_Witness ==
    /\ pret.tag = "Ok"
    /\ pret.val.manifest.number_of_files = MaxEntries
    /\ Len(Entries) = MaxEntries
    /\ Entries[1] # Entries[2]
    /\ Entries[1].file_name # <<>>

\* C2: when get_bytes succeeds, the bytes it returns are the bytes of the
\* backing file at [file_offset, file_offset + file_length1), file_length1 of
\* them, whatever file_length2 is.
C2_ExtractReturnsRange ==
    \A c \in Callers :
        (cpc[c] = "done" /\ cret[c].tag = "Ok") =>
            LET me == Entries[cidx[c]]
            IN  /\ Len(cret[c].val) = me.file_length1
                /\ \A k \in 1..me.file_length1 :
                       cret[c].val[k] = Bytes[me.file_offset + k]

C2_Witness ==
    \E c \in Callers :
        /\ cpc[c] = "done"
        /\ cret[c].tag = "Ok"
        /\ Entries[cidx[c]].file_length1 > 0
        /\ Entries[cidx[c]].file_length2 # Entries[cidx[c]].file_length1

\* C3 as stated: parse fails for every file whose first 8 bytes are not the
\* tag FAR!byAZ (so a parse that returned Ok read the tag).
C3_SignatureEnforced ==
    pret.tag = "Ok" => SubSeq(Bytes, 1, 8) = SigLiteral

\* C3, amended: parse compares the signature with nothing.  A parse that
\* returns Ok stores the first 8 bytes of the file as they are, and a parse
\* that fails at the signature fails on a short read of the 8 bytes (I/O
\* error) or on bytes that are not UTF-8 (encoding error), never on a
\* mismatch.
C3_SignatureStoredAsIs ==
    /\ pret.tag = "Ok" => pret.val.signature = SubSeq(Bytes, 1, 8)
    /\ pat = "signature" =>
          \/ pret = Err(FileError) /\ Size < 8
          \/ pret = Err(Utf8Error) /\ Size >= 8 /\ ~IsUtf8(SubSeq(Bytes, 1, 8))
    /\ (ppc = "returned" /\ Size >= 8 /\ IsUtf8(SubSeq(Bytes, 1, 8))) => pat # "signature"

C3_Witness ==
    /\ pret.tag = "Ok"
    /\ pret.val.signature = SigOther
    /\ pret.val.signature # SigLiteral
    /\ Len(Entries) > 0

\* C4 as stated: for every file of at least 16 bytes whose manifest_offset is
\* greater than the file size, parse returns an I/O error at the read of
\* entry_count.
C4_BeyondEofIsIoError ==
    (ppc = "returned" /\ Size >= 16 /\ U32At(12) > Size) =>
        pret = Err(FileError) /\ pat = "number_of_files"

\* C4, amended: for every file of at least 16 bytes whose manifest_offset is
\* greater than the file size, parse returns no Archive: when the first 8
\* bytes are UTF-8 it returns an I/O error at the read of entry_count, and
\* when they are not it returns the encoding error at the signature.
C4_BeyondEofFails ==
    /\ (Size >= 16 /\ U32At(12) > Size) => pret.tag # "Ok"
    /\ (ppc = "returned" /\ Size >= 16 /\ U32At(12) > Size) =>
          IF IsUtf8(SubSeq(Bytes, 1, 8))
          THEN pret = Err(FileError) /\ pat = "number_of_files"
          ELSE pret = Err(Utf8Error) /\ pat = "signature"

C4_Witness ==
    /\ ppc = "returned"
    /\ Size >= 16
    /\ U32At(12) > Size
    /\ SubSeq(Bytes, 1, 8) = SigLiteral
    /\ pret = Err(FileError)
    /\ pat = "number_of_files"

\* C5 as stated: get_bytes succeeds only if file_offset + file_length1 is at
\* most the size of the backing file.
C5_SuccessOnlyInsideFile ==
    \A c \in Callers :
        (cpc[c] = "done" /\ cret[c].tag = "Ok") =>
            Entries[cidx[c]].file_offset + Entries[cidx[c]].file_length1 <= Size

\* C5, amended: get_bytes on an entry with file_length1 > 0 succeeds only if
\* file_offset + file_length1 is at most the size of the backing file; when
\* the offset lies beyond the end or the range runs past it, it returns an
\* I/O error.  With file_length1 = 0 it returns the empty buffer at any
\* offset, also one beyond the end.  A buffer it returns is never shorter
\* than file_length1.
C5_SuccessInsideFileOrEmpty ==
    \A c \in Callers :
        cpc[c] = "done" =>
            LET me == Entries[cidx[c]]
            IN  /\ cret[c].tag = "Ok" =>
                      /\ me.file_length1 = 0 \/ me.file_offset + me.file_length1 <= Size
                      /\ Len(cret[c].val) = me.file_length1
                /\ (me.file_length1 > 0 /\ me.file_offset + me.file_length1 > Size) =>
                      cret[c] = Err(FileError)
                /\ me.file_length1 = 0 => cret[c] = Ok(<<>>)

C5_Witness ==
    \E c, d \in Callers :
        /\ cpc[c] = "done" /\ cpc[d] = "done"
        /\ Entries[cidx[c]].file_length1 > 0
        /\ Entries[cidx[c]].file_offset < Size
        /\ Entries[cidx[c]].file_offset + Entries[cidx[c]].file_length1 > Size
        /\ cret[c] = Err(FileError)
        /\ Entries[cidx[d]].file_length1 = 0
        /\ Entries[cidx[d]].file_offset > Size
        /\ cret[d] = Ok(<<>>)

\* The record at the cursor lies in the file whole, name included.
RecordPresent(p) ==
    /\ p + 16 <= Size
    /\ p + 16 + U32At(p + 12) <= Size

\* C6: when the name bytes of an entry record that parse reaches are not
\* UTF-8, parse returns the encoding error (Utf8Error, not the I/O error) and
\* no Archive; a name of a returned entry is the bytes on disk, undecoded.
C6_BadNameIsUtf8Error ==
    /\ [][ (/\ ppc = "entries"
            /\ Len(ParsedEntries) < far.manifest.number_of_files
            /\ RecordPresent(Cursor)
            /\ ~IsUtf8(DiskRecord(Cursor).file_name))
           => (/\ pret' = Err(Utf8Error)
               /\ pret' # Err(FileError)
               /\ ppc' = "returned"
               /\ pat' = "entries") ]_vars
    /\ [](pret.tag = "Ok" =>
            \A k \in 1..Len(Entries) : IsUtf8(Entries[k].file_name))

C6_Witness ==
    /\ ppc = "returned"
    /\ pat = "entries"
    /\ pret = Err(Utf8Error)
    /\ IsUtf8(SubSeq(Bytes, 1, 8))
    /\ Size > 16 /\ U32At(12) + 4 <= Size /\ U32At(U32At(12)) = MaxEntries
    /\ IsUtf8(DiskRecord(U32At(12) + 4).file_name)

\* C7: an entry record with name_length 0 parses to an entry with an empty
\* name and takes 16 bytes of the manifest; the next record is read from the
\* byte right after those 16, with the field values it has on disk.
C7_EmptyNameTakes16 ==
    (ppc = "entries" \/ pret.tag = "Ok") =>
        LET es == IF ppc = "entries" THEN ParsedEntries ELSE Entries
            mo == U32At(12)
        IN  \A k \in 1..Len(es) :
                LET p == DiskRecordOffset(mo, k)
                IN  U32At(p + 12) = 0 =>
                        /\ es[k].file_name_length = 0
                        /\ es[k].file_name = <<>>
                        /\ k < Len(es) => es[k + 1] = DiskRecord(p + 16)
                        /\ (k = Len(es) /\ ppc = "entries") => Cursor = p + 16

C7_Witness ==
    /\ pret.tag = "Ok"
    /\ Len(Entries) = 2
    /\ Entries[1].file_name_length = 0
    /\ Entries[2].file_name_length > 0
    /\ Entries[2] = DiskRecord(U32At(12) + 4 + 16)

\* C8: two sequential calls of get_bytes on the same entry, the backing file
\* unchanged, return the same result: the same bytes or both an error.
C8_SecondCallSameResult ==
    (cpc[1] = "done" /\ hist[cidx[1]] # None) => cret[1] = hist[cidx[1]]

C8_Witness ==
    /\ cpc[1] = "done"
    /\ hist[cidx[1]] # None
    /\ cret[1].tag = "Ok"
    /\ cret[1].val # <<>>
    /\ \E j \in 1..Len(Entries) : hist[j].tag = "Err"

\* What one call of get_bytes on `me` returns when nothing else runs: a
\* description of its own, a seek, a read.
GetBytesAlone(me) ==
    LET h == SeekStart(Opened, me.file_offset)
        r == ReadExact(Bytes, h, me.file_length1)
    IN  IF r.ok THEN Ok(r.bytes) ELSE Err(FileError)

\* C9: get_bytes calls that run at the same time on entries of one Far, the
\* same entry or different ones, each return what the call returns when run
\* alone, under every interleaving of their open, seek and read steps: no
\* two calls hold the same file description, and the entry is as parsed.
C9_ConcurrentAsAlone ==
    /\ \A c \in Callers :
           cpc[c] # "idle" => cme[c] = Entries[cidx[c]]
    /\ \A c \in Callers :
           cpc[c] = "done" => cret[c] = GetBytesAlone(Entries[cidx[c]])
    /\ \A c, d \in Callers :
           (c # d /\ cpc[c] \in {"seek", "read"} /\ cpc[d] \in {"seek", "read"}) =>
               cf[c] # cf[d]

C9_Witness ==
    \E c, d \in Callers :
        /\ c # d
        /\ cpc[c] = "done" /\ cret[c].tag = "Ok" /\ cret[c].val # <<>>
        /\ cpc[d] = "read"
        /\ handles[cf[d]].pos # Entries[cidx[c]].file_offset
        /\ handles[cf[d]].pos < Entries[cidx[c]].file_offset + Entries[cidx[c]].file_length1

\* C10: during a parse the entry records are read back to back: entry k is
\* the record at manifest_offset + 4 + the sum over the entries before it of
\* (16 + name_length), each record takes 16 + name_length bytes, and after
\* the last entry the cursor is at
\* manifest_offset + 4 + 16 * entry_count + sum(name_length).
C10_RecordsBackToBack ==
    ppc = "entries" =>
        LET es == ParsedEntries
            mo == far.manifest_offset
        IN  /\ \A k \in 1..Len(es) :
                   /\ es[k] = DiskRecord(mo + 4 + ParsedBytes(es, k - 1))
                   /\ Len(es[k].file_name) = es[k].file_name_length
            /\ Cursor = mo + 4 + ParsedBytes(es, Len(es))
            /\ Len(es) = far.manifest.number_of_files =>
                   Cursor = mo + 4 + 16 * far.manifest.number_of_files
                                + SumNameLengths(es)

C10_Witness ==
    /\ ppc = "entries"
    /\ Len(ParsedEntries) = far.manifest.number_of_files
    /\ Len(ParsedEntries) = MaxEntries
    /\ ParsedEntries[1].file_name_length = 2
    /\ ParsedEntries[2].file_name_length = 1
    /\ Cursor = Size

=============================================================================
